---- MODULE Spec2Model ----
(***************************************************************************)
(* Model of L9bossTimer.py: the boss registry (boss_data), its persisted   *)
(* copy (boss_data.json), the display sessions (active_messages), the      *)
(* command and button handlers with their await points, the periodic       *)
(* refresh and on_ready.                                                   *)
(*                                                                         *)
(* Time is an integer count of ticks of local (Asia/Manila) wall time;     *)
(* tick 0 is a Monday 00:00:00.  Manila has no daylight saving, so local   *)
(* wall time and instants differ by the constant offset LOCAL_TZ_OFFSET.   *)
(* An Optional value is a sequence: << >> is None, <<v>> holds v.          *)
(***************************************************************************)
EXTENDS Integers, Sequences, FiniteSets, TLC

VARIABLES now, boss_data, data_file, active_messages, tasks, refresh, probe

vars == <<now, boss_data, data_file, active_messages, tasks, refresh, probe>>

(* ------------------------------ bounds -------------------------------- *)
\* ticks per minute: the clock's resolution below the minute
TicksPerMinute == 2
\* communities (guild ids 1..NumGuilds)
NumGuilds == 1
\* handlers that can be in flight at the same time
NumHandlers == 2
\* the catalog is cut to its first NumCooldown cooldown bosses ...
NumCooldown == 2
\* ... and its first NumSchedule schedule bosses
NumSchedule == 1
\* how many times the clock advances
MaxClockSteps == 1

TicksPerHour == 60 * TicksPerMinute
TicksPerDay == 24 * TicksPerHour
TicksPerWeek == 7 * TicksPerDay

Guilds == 1 .. NumGuilds
Handlers == 1 .. NumHandlers

None == << >>
Some(v) == <<v>>

(* ------------------------------ config -------------------------------- *)
\* LOCAL_TZ = ZoneInfo("Asia/Manila"): UTC+8 all year
LOCAL_TZ_OFFSET == 8

\* datetime.max.replace(tzinfo=LOCAL_TZ): later than every instant of the model
datetime_max == 9999 * 7 * TicksPerDay

\* the cooldown entries of default_bosses, in source order
cooldown_bosses ==
  << [name |-> "Venatus", data |-> [respawn_hours |-> 10]],
     [name |-> "Viorent", data |-> [respawn_hours |-> 10]],
     [name |-> "Ego", data |-> [respawn_hours |-> 21]],
     [name |-> "Livera", data |-> [respawn_hours |-> 24]],
     [name |-> "Araneo", data |-> [respawn_hours |-> 24]],
     [name |-> "Undomiel", data |-> [respawn_hours |-> 24]],
     [name |-> "Lady Dalia", data |-> [respawn_hours |-> 18]],
     [name |-> "General Aqulues", data |-> [respawn_hours |-> 29]],
     [name |-> "Amentis", data |-> [respawn_hours |-> 29]],
     [name |-> "Baron Braudmore", data |-> [respawn_hours |-> 32]],
     [name |-> "Wannitas", data |-> [respawn_hours |-> 48]],
     [name |-> "Metus", data |-> [respawn_hours |-> 48]],
     [name |-> "Duplican", data |-> [respawn_hours |-> 48]],
     [name |-> "Shuliar", data |-> [respawn_hours |-> 35]],
     [name |-> "Gareth", data |-> [respawn_hours |-> 32]],
     [name |-> "Titore", data |-> [respawn_hours |-> 37]],
     [name |-> "Larba", data |-> [respawn_hours |-> 35]],
     [name |-> "Catena", data |-> [respawn_hours |-> 35]],
     [name |-> "Secreta", data |-> [respawn_hours |-> 62]],
     [name |-> "Ordo", data |-> [respawn_hours |-> 62]],
     [name |-> "Asta", data |-> [respawn_hours |-> 62]],
     [name |-> "Supore", data |-> [respawn_hours |-> 62]] >>

\* the schedule entries of default_bosses, in source order; a time string
\* "HH:MM" is written <<HH, MM>>, the pair time_str.split(":") parses it to
schedule_bosses ==
  << [name |-> "Clemantis",
      data |-> [schedule |-> << <<"Monday", <<11, 30>>>>, <<"Thursday", <<19, 0>>>> >>]],
     [name |-> "Saphirus",
      data |-> [schedule |-> << <<"Sunday", <<17, 0>>>>, <<"Tuesday", <<11, 30>>>> >>]],
     [name |-> "Neutro",
      data |-> [schedule |-> << <<"Tuesday", <<19, 0>>>>, <<"Thursday", <<11, 30>>>> >>]],
     [name |-> "Thymele",
      data |-> [schedule |-> << <<"Monday", <<19, 0>>>>, <<"Wednesday", <<11, 30>>>> >>]],
     [name |-> "Milavy", data |-> [schedule |-> << <<"Saturday", <<15, 0>>>> >>]],
     [name |-> "Ringor", data |-> [schedule |-> << <<"Saturday", <<17, 0>>>> >>]],
     [name |-> "Roderick", data |-> [schedule |-> << <<"Friday", <<19, 0>>>> >>]],
     [name |-> "Auruaq",
      data |-> [schedule |-> << <<"Wednesday", <<21, 0>>>>, <<"Friday", <<22, 0>>>> >>]],
     [name |-> "Chaiflock", data |-> [schedule |-> << <<"Saturday", <<22, 0>>>> >>]],
     [name |-> "Benji", data |-> [schedule |-> << <<"Sunday", <<21, 0>>>> >>]] >>

Min(a, b) == IF a <= b THEN a ELSE b

\* the catalog the model runs with: a prefix of each group, source order kept
default_bosses ==
  SubSeq(cooldown_bosses, 1, Min(NumCooldown, Len(cooldown_bosses)))
    \o SubSeq(schedule_bosses, 1, Min(NumSchedule, Len(schedule_bosses)))

BossNames == {default_bosses[i].name : i \in 1 .. Len(default_bosses)}

CatalogData(name) ==
  default_bosses[CHOOSE i \in 1 .. Len(default_bosses) : default_bosses[i].name = name].data

WEEKDAY_MAP ==
  [d \in {"Monday", "Tuesday", "Wednesday", "Thursday", "Friday", "Saturday", "Sunday"} |->
     CASE d = "Monday" -> 0 [] d = "Tuesday" -> 1 [] d = "Wednesday" -> 2
       [] d = "Thursday" -> 3 [] d = "Friday" -> 4 [] d = "Saturday" -> 5
       [] d = "Sunday" -> 6]

(* ------------------------------ datetime ------------------------------ *)
\* datetime.weekday(): Monday is 0
weekday(t) == (t \div TicksPerDay) % 7

\* datetime.replace(hour=, minute=, second=0, microsecond=0)
replace_time(t, hour, minute) ==
  (t \div TicksPerDay) * TicksPerDay + hour * TicksPerHour + minute * TicksPerMinute

\* timedelta(hours=, minutes=)
timedelta(hours, minutes) == hours * TicksPerHour + minutes * TicksPerMinute

\* isoformat as it would be with the wall-clock fields written as if they were
\* UTC
isoformat_as_utc(t) ==
  [day |-> t \div TicksPerDay,
   hour |-> (t % TicksPerDay) \div TicksPerHour,
   minute |-> (t % TicksPerHour) \div TicksPerMinute,
   second |-> t % TicksPerMinute,
   offset |-> 0]

\* datetime.isoformat() of an aware datetime in LOCAL_TZ: the wall-clock
\* fields and the UTC offset
isoformat(t) ==
  [day |-> t \div TicksPerDay,
   hour |-> (t % TicksPerDay) \div TicksPerHour,
   minute |-> (t % TicksPerHour) \div TicksPerMinute,
   second |-> t % TicksPerMinute,
   offset |-> LOCAL_TZ_OFFSET]

\* whether datetime.fromisoformat accepts the text
iso_valid(s) ==
  /\ s.hour \in 0 .. 23
  /\ s.minute \in 0 .. 59
  /\ s.second \in 0 .. (TicksPerMinute - 1)

\* datetime.fromisoformat(s).astimezone(LOCAL_TZ): the instant as UTC, then
\* as LOCAL_TZ wall time
fromisoformat(s) ==
  LET wall == s.day * TicksPerDay + s.hour * TicksPerHour
                + s.minute * TicksPerMinute + s.second
      utc == wall - s.offset * TicksPerHour
  IN  utc + LOCAL_TZ_OFFSET * TicksPerHour

\* str(guild_id) and int(gid)
str(guild_id) == <<"gid", guild_id>>
int(gid) == gid[2]

(* ----------------------------- persistence ---------------------------- *)
\* one boss record as json.dump writes it (lines 99-105)
to_json(data) ==
  IF Len(data.next_spawn) = 1
    THEN [data EXCEPT !.next_spawn = Some(isoformat(data.next_spawn[1]))]
    ELSE data

\* one boss record as load_boss_data rebuilds it (lines 121-135)
from_json(data) ==
  IF Len(data.next_spawn) = 1
    THEN IF iso_valid(data.next_spawn[1])
           THEN [data EXCEPT !.next_spawn = Some(fromisoformat(data.next_spawn[1]))]
           ELSE [data EXCEPT !.next_spawn = None]
    ELSE data

\* the content save_boss_data writes to DATA_FILE
save_boss_data(bd) ==
  Some([gid \in DOMAIN bd |-> [name \in DOMAIN bd[gid] |-> to_json(bd[gid][name])]])

\* load_boss_data as it would be with line 135 indented under the isinstance
\* test of line 123: only records with a stored timestamp are kept
load_boss_data_timers_only(f) ==
  IF f = None
    THEN << >>
    ELSE [gid \in DOMAIN f[1] |->
            [name \in {n \in DOMAIN f[1][gid] : Len(f[1][gid][n].next_spawn) = 1} |->
               from_json(f[1][gid][name])]]

\* the registry load_boss_data builds from DATA_FILE (<< >>: no file)
load_boss_data(f) ==
  IF f = None
    THEN << >>
    ELSE [gid \in DOMAIN f[1] |->
            [name \in DOMAIN f[1][gid] |-> from_json(f[1][gid][name])]]

(* ------------------------------- helpers ------------------------------ *)
new_boss(data) == [next_spawn |-> None, auto |-> FALSE, skipped |-> FALSE] @@ data

ensure_guild(bd, guild_id) ==
  IF str(guild_id) \in DOMAIN bd
    THEN bd
    ELSE [gid \in DOMAIN bd \cup {str(guild_id)} |->
            IF gid = str(guild_id)
              THEN [name \in BossNames |-> new_boss(CatalogData(name))]
              ELSE bd[gid]]

\* next_weekday_time as it would be with candidate < now on line 158
next_weekday_time_lt(day_name, time_str, t) ==
  LET target_weekday == WEEKDAY_MAP[day_name]
      candidate == replace_time(t, time_str[1], time_str[2])
      days_ahead == (target_weekday - weekday(candidate)) % 7
      days == IF days_ahead = 0 /\ candidate < t THEN 7 ELSE days_ahead
  IN  candidate + days * TicksPerDay

\* next_weekday_time as it would be without second=0 on line 156
next_weekday_time_keeps_seconds(day_name, time_str, t) ==
  LET target_weekday == WEEKDAY_MAP[day_name]
      candidate == replace_time(t, time_str[1], time_str[2]) + (t % TicksPerMinute)
      days_ahead == (target_weekday - weekday(candidate)) % 7
      days == IF days_ahead = 0 /\ candidate <= t THEN 7 ELSE days_ahead
  IN  candidate + days * TicksPerDay

next_weekday_time(day_name, time_str, t) ==
  LET target_weekday == WEEKDAY_MAP[day_name]
      candidate == replace_time(t, time_str[1], time_str[2])
      days_ahead == (target_weekday - weekday(candidate)) % 7
      days == IF days_ahead = 0 /\ candidate <= t THEN 7 ELSE days_ahead
  IN  candidate + days * TicksPerDay

RECURSIVE MinOf(_)
MinOf(s) == IF Len(s) = 1 THEN s[1] ELSE Min(s[1], MinOf(Tail(s)))

\* the value for one boss record (lines 169-180)
next_spawn_of(data, t) ==
  IF data.skipped
    THEN datetime_max
    ELSE IF Len(data.next_spawn) = 1 /\ data.next_spawn[1] > t
      THEN data.next_spawn[1]
      ELSE IF "schedule" \in DOMAIN data
        THEN MinOf([i \in 1 .. Len(data.schedule) |->
                      next_weekday_time(data.schedule[i][1], data.schedule[i][2], t)])
        ELSE datetime_max

compute_next_spawn(bd, guild_id, boss_name, t) ==
  LET reg == ensure_guild(bd, guild_id)
  IN  next_spawn_of(reg[str(guild_id)][boss_name], t)

\* dict.items() of one community: insertion order, which ensure_guild and
\* load_boss_data (reading what save_boss_data wrote) make the catalog's
items(bosses) ==
  LET names == [i \in 1 .. Len(default_bosses) |-> default_bosses[i].name]
      present == SelectSeq(names, LAMBDA n : n \in DOMAIN bosses)
  IN  [i \in 1 .. Len(present) |-> <<present[i], bosses[present[i]]>>]

\* sort_key as it would be with the skipped rank inverted on line 191
sort_key_skipped_first(item, t) ==
  LET data == item[2]
      ns == next_spawn_of(data, t)
      is_skipped == IF data.skipped THEN 0 ELSE 1
      is_alive == IF data.next_spawn = None /\ "schedule" \notin DOMAIN data THEN 1 ELSE 0
  IN  <<is_skipped, is_alive, ns>>

sort_key(item, t) ==
  LET data == item[2]
      ns == next_spawn_of(data, t)
      is_skipped == IF data.skipped THEN 1 ELSE 0
      is_alive == IF data.next_spawn = None /\ "schedule" \notin DOMAIN data THEN 1 ELSE 0
  IN  <<is_skipped, is_alive, ns>>

\* tuple comparison k1 < k2
key_less(k1, k2) ==
  \/ k1[1] < k2[1]
  \/ k1[1] = k2[1] /\ k1[2] < k2[2]
  \/ k1[1] = k2[1] /\ k1[2] = k2[2] /\ k1[3] < k2[3]

\* list.sort(key=) on the decorated list of <<key, item>> pairs: stable; x goes
\* after the last element whose key is not greater than its own
RECURSIVE insert_sorted(_, _)
insert_sorted(s, x) ==
  IF s = << >>
    THEN <<x>>
    ELSE IF key_less(x[1], s[Len(s)][1])
      THEN Append(insert_sorted(SubSeq(s, 1, Len(s) - 1), x), s[Len(s)])
      ELSE Append(s, x)

RECURSIVE list_sort(_)
list_sort(s) ==
  IF s = << >>
    THEN << >>
    ELSE insert_sorted(list_sort(SubSeq(s, 1, Len(s) - 1)), s[Len(s)])

get_sorted_boss_list(bd, guild_id, t) ==
  LET reg == ensure_guild(bd, guild_id)
      its == items(reg[str(guild_id)])
      sorted == list_sort([i \in 1 .. Len(its) |-> <<sort_key(its[i], t), its[i]>>])
  IN  [i \in 1 .. Len(sorted) |-> sorted[i][2]]

\* get_embed as it would be if rendering a community cleared the skipped
\* marks of its bosses
get_embed_clears_skipped(bd, guild_id) ==
  [gid \in DOMAIN ensure_guild(bd, guild_id) |->
     IF gid = str(guild_id)
       THEN [n \in DOMAIN ensure_guild(bd, guild_id)[gid] |->
               [ensure_guild(bd, guild_id)[gid][n] EXCEPT !.skipped = FALSE]]
       ELSE bd[gid]]

\* what get_embed and BossView leave in the registry: both only read it, after
\* ensure_guild
get_embed(bd, guild_id) == ensure_guild(bd, guild_id)

(* ------------------------- registry mutations ------------------------- *)
\* reset_boss as it would be without line 260
reset_boss_keeps_skipped(boss, t) ==
  IF "respawn_hours" \in DOMAIN boss
    THEN [boss EXCEPT !.next_spawn = Some(t + timedelta(boss.respawn_hours, 0)),
                      !.auto = FALSE]
    ELSE boss

\* reset_boss as it would be without the test of line 257, a boss without
\* respawn_hours counting as one with none to wait
reset_boss_any(boss, t) ==
  [boss EXCEPT !.next_spawn =
                 Some(t + (IF "respawn_hours" \in DOMAIN boss
                             THEN timedelta(boss.respawn_hours, 0) ELSE 0)),
               !.auto = FALSE,
               !.skipped = FALSE]

\* reset_boss as it would be if the cooldown were counted from the timer
\* already set instead of from now
reset_boss_extends(boss, t) ==
  IF "respawn_hours" \in DOMAIN boss
    THEN [boss EXCEPT !.next_spawn =
                        Some((IF boss.next_spawn = None THEN t ELSE boss.next_spawn[1])
                               + timedelta(boss.respawn_hours, 0)),
                      !.auto = FALSE,
                      !.skipped = FALSE]
    ELSE boss

\* BossButton.callback, lines 257-260
reset_boss(boss, t) ==
  IF "respawn_hours" \in DOMAIN boss
    THEN [boss EXCEPT !.next_spawn = Some(t + timedelta(boss.respawn_hours, 0)),
                      !.auto = FALSE,
                      !.skipped = FALSE]
    ELSE boss

\* maintenance as it would be without line 353
maintenance_update_keeps_skipped(bosses) ==
  [name \in DOMAIN bosses |->
     [bosses[name] EXCEPT !.next_spawn = None, !.auto = FALSE]]

\* maintenance, lines 350-353
maintenance_update(bosses) ==
  [name \in DOMAIN bosses |->
     [bosses[name] EXCEPT !.next_spawn = None, !.auto = FALSE, !.skipped = FALSE]]

\* skipall as it would be without the test of line 370
skipall_update_every_boss(bosses) ==
  [name \in DOMAIN bosses |->
     [bosses[name] EXCEPT !.next_spawn = None, !.auto = FALSE,
                          !.skipped = "respawn_hours" \in DOMAIN bosses[name]]]

\* skipall as it would be without line 371
skipall_update_keeps_timer(bosses) ==
  [name \in DOMAIN bosses |->
     IF "respawn_hours" \in DOMAIN bosses[name]
       THEN [bosses[name] EXCEPT !.auto = FALSE, !.skipped = TRUE]
       ELSE bosses[name]]

\* skipall, lines 369-374
skipall_update(bosses) ==
  [name \in DOMAIN bosses |->
     IF "respawn_hours" \in DOMAIN bosses[name]
       THEN [bosses[name] EXCEPT !.next_spawn = None, !.auto = FALSE, !.skipped = TRUE]
       ELSE bosses[name]]

\* setkilltime as it would be without line 395
setkilltime_update_keeps_skipped(bosses, boss, dt) ==
  [bosses EXCEPT ![boss] = [@ EXCEPT !.next_spawn = Some(dt), !.auto = FALSE]]

\* setkilltime, lines 392-395
setkilltime_update(bosses, boss, dt) ==
  [bosses EXCEPT ![boss] =
     [@ EXCEPT !.next_spawn = Some(dt), !.auto = FALSE, !.skipped = FALSE]]

(* ------------------------------- state -------------------------------- *)
\* the clock when the process first starts: a Thursday 09:00:00
ClockStart == 3 * TicksPerDay + 9 * TicksPerHour
\* the clock advances in steps of ten hours
ClockStep == timedelta(10, 0)

\* the arguments users give to setkilltime
KillTimes == {<<0, 0>>, <<2, 30>>}
KillNames == BossNames \cup {"Nobody"}

\* a handler in flight: where it waits (pc), which command it runs (cmd) and
\* the guild it runs for, the one local it still reads after an await
idle_task == [pc |-> "idle", cmd |-> "", guild_id |-> 0]

Task(pc, cmd, guild_id) == [pc |-> pc, cmd |-> cmd, guild_id |-> guild_id]

has_message(gid) == \E i \in 1 .. Len(active_messages) : active_messages[i] = gid

Init ==
  /\ now = ClockStart
  /\ boss_data = << >>
  /\ data_file = None
  /\ active_messages = << >>
  /\ tasks = [h \in Handlers |-> idle_task]
  /\ refresh = [running |-> FALSE, pending |-> << >>]
  /\ probe = None

(* ------------------------------ handlers ------------------------------ *)
\* /boss up to its first await (lines 332-337)
boss(h, guild_id) ==
  /\ tasks[h].pc = "idle"
  /\ boss_data' = get_embed(boss_data, guild_id)
  /\ tasks' = [tasks EXCEPT ![h] = Task("respond", "boss", guild_id)]
  /\ UNCHANGED <<now, data_file, active_messages, refresh, probe>>

\* /maintenance up to its first await (lines 348-357)
maintenance(h, guild_id) ==
  /\ tasks[h].pc = "idle"
  /\ LET gid == str(guild_id)
         bd == ensure_guild(boss_data, guild_id)
         bd2 == [bd EXCEPT ![gid] = maintenance_update(bd[gid])]
     IN  /\ boss_data' = bd2
         /\ data_file' = save_boss_data(bd2)
  /\ tasks' = [tasks EXCEPT ![h] = Task("respond", "maintenance", guild_id)]
  /\ UNCHANGED <<now, active_messages, refresh, probe>>

\* /skipall up to its first await (lines 366-376)
skipall(h, guild_id) ==
  /\ tasks[h].pc = "idle"
  /\ LET gid == str(guild_id)
         bd == ensure_guild(boss_data, guild_id)
         bd2 == [bd EXCEPT ![gid] = skipall_update(bd[gid])]
     IN  /\ boss_data' = bd2
         /\ data_file' = save_boss_data(bd2)
  /\ tasks' = [tasks EXCEPT ![h] = Task("respond", "skipall", guild_id)]
  /\ UNCHANGED <<now, active_messages, refresh, probe>>

\* setkilltime as it would be with save_boss_data called before the test of
\* line 389
setkilltime_saves_first(h, guild_id, boss_name, hours, minutes) ==
  /\ tasks[h].pc = "idle"
  /\ LET gid == str(guild_id)
         bd == ensure_guild(boss_data, guild_id)
         dt == now + timedelta(hours, minutes)
         bd2 == [bd EXCEPT ![gid] = setkilltime_update(bd[gid], boss_name, dt)]
     IN  IF boss_name \notin DOMAIN bd[gid]
           THEN /\ boss_data' = bd
                /\ data_file' = save_boss_data(bd)
                /\ tasks' = [tasks EXCEPT ![h] = Task("respond", "notfound", guild_id)]
           ELSE /\ boss_data' = bd2
                /\ data_file' = save_boss_data(bd2)
                /\ tasks' = [tasks EXCEPT ![h] = Task("respond", "setkilltime", guild_id)]
  /\ UNCHANGED <<now, active_messages, refresh, probe>>

\* /setkilltime up to its first await (lines 386-400)
setkilltime(h, guild_id, boss_name, hours, minutes) ==
  /\ tasks[h].pc = "idle"
  /\ LET gid == str(guild_id)
         bd == ensure_guild(boss_data, guild_id)
         dt == now + timedelta(hours, minutes)
         bd2 == [bd EXCEPT ![gid] = setkilltime_update(bd[gid], boss_name, dt)]
     IN  IF boss_name \notin DOMAIN bd[gid]
           THEN /\ boss_data' = bd
                /\ data_file' = data_file
                /\ tasks' = [tasks EXCEPT ![h] = Task("respond", "notfound", guild_id)]
           ELSE /\ boss_data' = bd2
                /\ data_file' = save_boss_data(bd2)
                /\ tasks' = [tasks EXCEPT ![h] = Task("respond", "setkilltime", guild_id)]
  /\ UNCHANGED <<now, active_messages, refresh, probe>>

\* BossButton.callback up to its first await (lines 254-270); the button
\* carries any boss name its constructor was given
BossButton_callback(h, guild_id, boss_name) ==
  /\ tasks[h].pc = "idle"
  /\ LET gid == str(guild_id)
         bd == ensure_guild(boss_data, guild_id)
         cooldown == "respawn_hours" \in DOMAIN bd[gid][boss_name]
         bd2 == [bd EXCEPT ![gid][boss_name] = reset_boss(@, now)]
     IN  /\ boss_data' = bd2
         /\ data_file' = IF cooldown THEN save_boss_data(bd2) ELSE data_file
         /\ tasks' = [tasks EXCEPT ![h] =
                        Task(IF has_message(gid) THEN "edit" ELSE "respond",
                             IF cooldown THEN "reset" ELSE "reset_noop",
                             guild_id)]
  /\ UNCHANGED <<now, active_messages, refresh, probe>>

\* PrevButton.callback and NextButton.callback up to their first await
\* (lines 280-289, 299-308)
PageButton_callback(h, guild_id) ==
  /\ tasks[h].pc = "idle"
  /\ boss_data' = get_embed(boss_data, guild_id)
  /\ tasks' = [tasks EXCEPT ![h] =
                 Task(IF has_message(str(guild_id)) THEN "edit" ELSE "respond",
                      "page", guild_id)]
  /\ UNCHANGED <<now, data_file, active_messages, refresh, probe>>

\* the awaited interaction.response call returns
respond_done(h) ==
  /\ tasks[h].pc = "respond"
  /\ LET t == tasks[h]
     IN  CASE t.cmd \in {"maintenance", "skipall", "setkilltime"} ->
                \* msg = active_messages.get(gid); if msg: get_embed, await msg.edit
                IF has_message(str(t.guild_id))
                  THEN /\ boss_data' = get_embed(boss_data, t.guild_id)
                       /\ tasks' = [tasks EXCEPT ![h].pc = "edit"]
                  ELSE /\ boss_data' = boss_data
                       /\ tasks' = [tasks EXCEPT ![h] = idle_task]
           [] t.cmd = "boss" ->
                \* await interaction.original_response()
                /\ boss_data' = boss_data
                /\ tasks' = [tasks EXCEPT ![h].pc = "original"]
           [] OTHER ->
                /\ boss_data' = boss_data
                /\ tasks' = [tasks EXCEPT ![h] = idle_task]
  /\ UNCHANGED <<now, data_file, active_messages, refresh, probe>>

\* the awaited msg.edit returns, or raises because the message is gone
edit_done(h, ok) ==
  /\ tasks[h].pc = "edit"
  /\ tasks' = [tasks EXCEPT ![h] =
                 IF ok /\ tasks[h].cmd \in {"reset", "reset_noop", "page"}
                   THEN [tasks[h] EXCEPT !.pc = "respond"]
                   ELSE idle_task]
  /\ UNCHANGED <<now, boss_data, data_file, active_messages, refresh, probe>>

\* /boss: original_response returns and the message is stored, or raises
\* (lines 338-343)
original_done(h, ok) ==
  /\ tasks[h].pc = "original"
  /\ LET gid == str(tasks[h].guild_id)
     IN  active_messages' =
           IF ok /\ ~has_message(gid) THEN Append(active_messages, gid)
           ELSE active_messages
  /\ tasks' = [tasks EXCEPT ![h] = idle_task]
  /\ UNCHANGED <<now, boss_data, data_file, refresh, probe>>

(* ------------------------- refresh and events ------------------------- *)
\* one run of the loop body starts: snapshot, first get_embed, await msg.edit
\* (lines 411-414)
refresh_active_messages ==
  /\ refresh.running
  /\ refresh.pending = << >>
  /\ active_messages # << >>
  /\ refresh' = [refresh EXCEPT !.pending = active_messages]
  /\ boss_data' = get_embed(boss_data, int(active_messages[1]))
  /\ UNCHANGED <<now, data_file, active_messages, tasks, probe>>

\* the awaited msg.edit of the loop returns, or raises and the mapping is
\* popped; then the next item's get_embed (lines 412-417)
refresh_edit_done(ok) ==
  /\ refresh.pending # << >>
  /\ LET gid == Head(refresh.pending)
         rest == Tail(refresh.pending)
     IN  /\ active_messages' =
               IF ok THEN active_messages
               ELSE SelectSeq(active_messages, LAMBDA k : k # gid)
         /\ refresh' = [refresh EXCEPT !.pending = rest]
         /\ boss_data' = IF rest = << >> THEN boss_data
                         ELSE get_embed(boss_data, int(Head(rest)))
  /\ UNCHANGED <<now, data_file, tasks, probe>>

\* on_ready: load_boss_data, then the refresh loop is started (lines 422-433)
on_ready ==
  /\ boss_data' = load_boss_data(data_file)
  /\ refresh' = [refresh EXCEPT !.running = TRUE]
  /\ UNCHANGED <<now, data_file, active_messages, tasks, probe>>

\* the process dies and starts again: the module-level state of lines 89-90,
\* no handler in flight, DATA_FILE as it was left
restart ==
  /\ boss_data' = << >>
  /\ active_messages' = << >>
  /\ tasks' = [h \in Handlers |-> idle_task]
  /\ refresh' = [running |-> FALSE, pending |-> << >>]
  /\ UNCHANGED <<now, data_file, probe>>

\* datetime.now(LOCAL_TZ) moves on
clock ==
  /\ now + ClockStep <= ClockStart + MaxClockSteps * ClockStep
  /\ now' = now + ClockStep
  /\ UNCHANGED <<boss_data, data_file, active_messages, tasks, refresh, probe>>

Next ==
  \/ \E h \in Handlers, g \in Guilds : boss(h, g)
  \/ \E h \in Handlers, g \in Guilds : maintenance(h, g)
  \/ \E h \in Handlers, g \in Guilds : skipall(h, g)
  \/ \E h \in Handlers, g \in Guilds, n \in KillNames, k \in KillTimes :
       setkilltime(h, g, n, k[1], k[2])
  \/ \E h \in Handlers, g \in Guilds, n \in BossNames : BossButton_callback(h, g, n)
  \/ \E h \in Handlers, g \in Guilds : PageButton_callback(h, g)
  \/ \E h \in Handlers : respond_done(h)
  \/ \E h \in Handlers, ok \in BOOLEAN : edit_done(h, ok)
  \/ \E h \in Handlers, ok \in BOOLEAN : original_done(h, ok)
  \/ refresh_active_messages
  \/ \E ok \in BOOLEAN : refresh_edit_done(ok)
  \/ on_ready
  \/ restart
  \/ clock

Spec == Init /\ [][Next]_vars


(* ------------------- next_weekday_time on its own --------------------- *)
\* days the probed instants are taken from
ProbeDays == 14

\* times of day of the catalog, midnight, the last minute of a day and 09:00
ProbeTimes ==
  {<<11, 30>>, <<19, 0>>, <<17, 0>>, <<15, 0>>, <<21, 0>>, <<22, 0>>,
   <<0, 0>>, <<23, 59>>, <<9, 0>>}

\* each of these times on each day, and the ticks next to it
ProbeInstants ==
  {d * TicksPerDay + timedelta(tm[1], tm[2]) + s :
     d \in 1 .. ProbeDays, tm \in ProbeTimes, s \in {-1, 0, 1}}

TimeInit ==
  /\ Init!1 /\ Init!2 /\ Init!3 /\ Init!4 /\ Init!5 /\ Init!6
  /\ probe \in {Some([day_name |-> d, time_str |-> tm, t |-> t, result |-> None]) :
                  d \in DOMAIN WEEKDAY_MAP, tm \in ProbeTimes, t \in ProbeInstants}

\* one call of next_weekday_time with the clock at probe.t
call_next_weekday_time ==
  /\ probe # None
  /\ probe[1].result = None
  /\ probe' = Some([probe[1] EXCEPT !.result =
                      Some(next_weekday_time(probe[1].day_name, probe[1].time_str,
                                             probe[1].t))])
  /\ UNCHANGED <<now, boss_data, data_file, active_messages, tasks, refresh>>

TimeSpec == TimeInit /\ [][call_next_weekday_time]_vars

(* ------------------------------ notions ------------------------------- *)
\* the mutable fields of a boss record
fields(data) == <<data.next_spawn, data.auto, data.skipped>>

is_cooldown(name) == "respawn_hours" \in DOMAIN CatalogData(name)
is_schedule(name) == "schedule" \in DOMAIN CatalogData(name)

CooldownNames == {n \in BossNames : is_cooldown(n)}
ScheduleNames == {n \in BossNames : is_schedule(n)}

\* a handler that has mutated guild_id's registry and has not returned yet
mutator_in_flight(h, guild_id) ==
  /\ tasks[h].pc # "idle"
  /\ tasks[h].cmd \in {"maintenance", "skipall", "setkilltime", "reset"}
  /\ tasks[h].guild_id = guild_id

\* the success response of h's mutating command has been sent: the reset
\* button answers after its msg.edit, the commands before theirs
response_sent(h) ==
  \/ tasks[h].cmd \in {"maintenance", "skipall", "setkilltime"}
       /\ tasks[h].pc \in {"respond", "edit"}
  \/ tasks[h].cmd = "reset" /\ tasks[h].pc = "respond"

\* the instants a view may be computed at without the registry changing:
\* now, and later ones up to the next step of the clock
ViewInstants == {now, now + timedelta(2, 30), now + ClockStep}

(* ------------------------------- claims ------------------------------- *)
\* C1: in every reachable state every community of boss_data, and every
\* community load_boss_data would build from the file as it stands, holds
\* exactly the catalog's boss names: none missing, none extra.
Thm_C1_OneEntryPerCatalogName ==
  /\ \A gid \in DOMAIN boss_data : DOMAIN boss_data[gid] = BossNames
  /\ \A gid \in DOMAIN load_boss_data(data_file) :
       DOMAIN load_boss_data(data_file)[gid] = BossNames

\* a registry that on_ready loaded from a file holding a skipped boss, a
\* timer and a boss without one
Wit_C1_LoadedRegistry ==
  /\ refresh.running
  /\ \A h \in Handlers : tasks[h].pc = "idle"
  /\ data_file # None
  /\ boss_data = load_boss_data(data_file)
  /\ \E gid \in DOMAIN boss_data :
       /\ \E n \in BossNames : boss_data[gid][n].skipped
       /\ \E n \in BossNames : boss_data[gid][n].next_spawn # None

\* C2: whenever the success response of a mutating command has been sent,
\* a crash now followed by load_boss_data gives the mutated community the
\* next_spawn, auto and skipped it has in memory.
Thm_C2_WriteThrough ==
  \A h \in Handlers :
    response_sent(h) =>
      LET gid == str(tasks[h].guild_id)
          loaded == load_boss_data(data_file)
      IN  /\ gid \in DOMAIN boss_data
          /\ gid \in DOMAIN loaded
          /\ \A n \in BossNames : fields(loaded[gid][n]) = fields(boss_data[gid][n])

\* a response has gone out for a mutation that left a timer behind
Wit_C2_ResponseSentWithTimer ==
  \E h \in Handlers :
    /\ response_sent(h)
    /\ str(tasks[h].guild_id) \in DOMAIN boss_data
    /\ \E n \in BossNames :
         boss_data[str(tasks[h].guild_id)][n].next_spawn # None

\* C3: when a handler mutates a community that another handler, still in
\* flight, has mutated before, it changes exactly the fields its own command
\* sets and keeps every other boss as the earlier mutation left it, the file
\* then loads to the registry in memory, and no step a handler takes after an
\* await changes a boss record or the file: nothing of either mutation is lost.
Thm_C3_NoLostUpdate ==
  [][\A h \in Handlers, g \in Guilds :
       (\E h2 \in Handlers \ {h} : mutator_in_flight(h2, g)) =>
         LET gid == str(g)
             old(n) == fields(boss_data[gid][n])
             new(n) == fields(boss_data'[gid][n])
             saved == load_boss_data(data_file')[gid] = boss_data'[gid]
         IN  /\ maintenance(h, g) =>
                  saved /\ \A n \in BossNames : new(n) = <<None, FALSE, FALSE>>
             /\ skipall(h, g) =>
                  saved /\ \A n \in BossNames :
                    new(n) = IF is_cooldown(n) THEN <<None, FALSE, TRUE>> ELSE old(n)
             /\ \A b \in BossNames, k \in KillTimes :
                  setkilltime(h, g, b, k[1], k[2]) =>
                    saved /\ \A n \in BossNames :
                      new(n) = IF n = b
                                 THEN <<Some(now + timedelta(k[1], k[2])), FALSE, FALSE>>
                                 ELSE old(n)
             /\ \A b \in CooldownNames :
                  BossButton_callback(h, g, b) =>
                    saved /\ \A n \in BossNames :
                      new(n) = IF n = b
                                 THEN <<Some(now + timedelta(CatalogData(b).respawn_hours, 0)),
                                        FALSE, FALSE>>
                                 ELSE old(n)
             /\ (respond_done(h) \/ \E ok \in BOOLEAN : edit_done(h, ok)) =>
                  /\ data_file' = data_file
                  /\ boss_data'[gid] = boss_data[gid]
    ]_vars

\* two handlers that both mutated the same community are in flight
Wit_C3_TwoMutatorsInFlight ==
  \E h1, h2 \in Handlers, g \in Guilds :
    /\ h1 # h2
    /\ mutator_in_flight(h1, g) /\ tasks[h1].cmd = "skipall"
    /\ mutator_in_flight(h2, g) /\ tasks[h2].cmd = "setkilltime"
    /\ \E n \in BossNames : boss_data[str(g)][n].next_spawn # None
    /\ \E n \in BossNames : boss_data[str(g)][n].skipped

\* C4: in get_sorted_boss_list, computed now or later on the same registry,
\* every boss is listed and no skipped boss stands before a boss that is not
\* skipped.
Thm_C4_SkippedLast ==
  \A gid \in DOMAIN boss_data, t \in ViewInstants :
    LET l == get_sorted_boss_list(boss_data, int(gid), t)
    IN  /\ Len(l) = Cardinality(BossNames)
        /\ \A i, j \in 1 .. Len(l) : (l[i][2].skipped /\ ~l[j][2].skipped) => j < i

\* a skipped boss stands before a boss with a timer in the catalog's order
Wit_C4_SkippedBeforeTimedInCatalog ==
  \E gid \in DOMAIN boss_data :
    LET its == items(boss_data[gid])
    IN  \E i, j \in 1 .. Len(its) :
          i < j /\ its[i][2].skipped /\ ~its[j][2].skipped
            /\ its[j][2].next_spawn # None

\* the key of C5: aliveRank is 1 exactly when the boss has no next_spawn in
\* the future and is not a schedule boss
claimed_sort_key(item, t) ==
  LET data == item[2]
      active == data.next_spawn # None /\ data.next_spawn[1] > t
  IN  <<IF data.skipped THEN 1 ELSE 0,
        IF ~active /\ "schedule" \notin DOMAIN data THEN 1 ELSE 0,
        next_spawn_of(data, t)>>

\* the bosses of a community stably sorted by the key of C5
claimed_sorted_boss_list(bosses, t) ==
  LET its == items(bosses)
      sorted == list_sort([i \in 1 .. Len(its) |-> <<claimed_sort_key(its[i], t), its[i]>>])
  IN  [i \in 1 .. Len(sorted) |-> sorted[i][2]]

\* C5: get_sorted_boss_list returns the bosses ordered ascending by
\* (skippedRank, aliveRank, nextSpawn), aliveRank being 1 exactly when the boss
\* has no next_spawn in the future and is not a schedule boss, equal keys in
\* catalog order.
Cex_C5_SortedByClaimedKey ==
  \A gid \in DOMAIN boss_data :
    get_sorted_boss_list(boss_data, int(gid), now)
      = claimed_sorted_boss_list(boss_data[gid], now)

\* C6: a boss whose next_spawn is set and strictly after now has
\* compute_next_spawn equal to that next_spawn.
Thm_C6_OverrideWins ==
  \A gid \in DOMAIN boss_data, n \in BossNames, t \in ViewInstants :
    LET ns == boss_data[gid][n].next_spawn
    IN  (ns # None /\ ns[1] > t) =>
          compute_next_spawn(boss_data, int(gid), n, t) = ns[1]

\* a schedule boss and a cooldown boss both carry a timer in the future
Wit_C6_FutureTimers ==
  \E gid \in DOMAIN boss_data :
    /\ \E n \in ScheduleNames :
         boss_data[gid][n].next_spawn # None /\ boss_data[gid][n].next_spawn[1] > now
    /\ \E n \in CooldownNames :
         boss_data[gid][n].next_spawn # None /\ boss_data[gid][n].next_spawn[1] > now

\* t falls on one of the (weekday, time) pairs of the schedule, seconds zero
on_slot(schedule, t) ==
  \E i \in 1 .. Len(schedule) :
    /\ weekday(t) = WEEKDAY_MAP[schedule[i][1]]
    /\ t % TicksPerDay = timedelta(schedule[i][2][1], schedule[i][2][2])

\* C7 as claimed: for every schedule boss compute_next_spawn is on one of its
\* (weekday, time) pairs and strictly after now.
Cex_C7_AlwaysOnSlot ==
  \A gid \in DOMAIN boss_data, n \in ScheduleNames :
    LET r == compute_next_spawn(boss_data, int(gid), n, now)
    IN  r > now /\ on_slot(CatalogData(n).schedule, r)

\* C7 as amended: for every schedule boss compute_next_spawn is strictly after
\* now; it is the boss's next_spawn when that is set and after now, and
\* otherwise it is on one of the boss's (weekday, time) pairs.
Thm_C7_SlotUnlessOverride ==
  \A gid \in DOMAIN boss_data, n \in ScheduleNames, t \in ViewInstants :
    LET r == compute_next_spawn(boss_data, int(gid), n, t)
        ns == boss_data[gid][n].next_spawn
    IN  /\ r > t
        /\ IF ns # None /\ ns[1] > t
             THEN r = ns[1]
             ELSE on_slot(CatalogData(n).schedule, r)

\* now is exactly a slot of a schedule boss whose setkilltime timer has run out
Wit_C7_OnSlotWithExpiredTimer ==
  \E gid \in DOMAIN boss_data, n \in ScheduleNames :
    /\ on_slot(CatalogData(n).schedule, now)
    /\ boss_data[gid][n].next_spawn # None
    /\ boss_data[gid][n].next_spawn[1] <= now

\* C8: next_weekday_time returns the earliest instant after now on the given
\* weekday and time of day, seconds zero: it is after now, on the slot, at
\* most 7 days away with no slot instant between, 7 days away when now is
\* the slot instant; a Thursday 19:00 slot asked for on Wednesday 09:00 is
\* the next day's 19:00.
Thm_C8_EarliestSlotAfterNow ==
  (probe # None /\ probe[1].result # None) =>
    LET q == probe[1]
        r == q.result[1]
        slot == << <<q.day_name, q.time_str>> >>
    IN  /\ r > q.t
        /\ on_slot(slot, r)
        /\ r - TicksPerWeek <= q.t
        /\ on_slot(slot, q.t) => r = q.t + TicksPerWeek
        /\ (q.day_name = "Thursday" /\ q.time_str = <<19, 0>>
              /\ weekday(q.t) = 2 /\ q.t % TicksPerDay = timedelta(9, 0))
             => r = q.t + timedelta(24 + 10, 0)

\* the call was made at the slot instant itself and answered a week later
Wit_C8_AskedOnTheSlot ==
  /\ probe # None
  /\ probe[1].result # None
  /\ on_slot(<< <<probe[1].day_name, probe[1].time_str>> >>, probe[1].t)
  /\ probe[1].result[1] = probe[1].t + TicksPerWeek

\* C9: the reset button pressed at now on a cooldown boss, whatever its state,
\* leaves it with next_spawn = now + respawn_hours, auto and skipped false,
\* and compute_next_spawn right afterwards is now + respawn_hours.
Thm_C9_ResetSetsCooldown ==
  [][\A h \in Handlers, g \in Guilds, b \in CooldownNames :
       BossButton_callback(h, g, b) =>
         LET due == now + timedelta(CatalogData(b).respawn_hours, 0)
         IN  /\ fields(boss_data'[str(g)][b]) = <<Some(due), FALSE, FALSE>>
             /\ compute_next_spawn(boss_data', g, b, now') = due
    ]_vars

\* a reset is in flight that found its boss skipped or with a timer and has
\* set the timer to now + respawn_hours
Wit_C9_ResetInFlight ==
  \E h \in Handlers, b \in CooldownNames :
    /\ tasks[h].cmd = "reset"
    /\ now > ClockStart
    /\ boss_data[str(tasks[h].guild_id)][b].next_spawn
         = Some(now + timedelta(CatalogData(b).respawn_hours, 0))

\* C10: the reset button pressed on a schedule boss changes no boss record in
\* memory and leaves the file as it was.
Thm_C10_ResetScheduleNoChange ==
  [][\A h \in Handlers, g \in Guilds, b \in ScheduleNames :
       BossButton_callback(h, g, b) =>
         /\ data_file' = data_file
         /\ \A gid \in DOMAIN boss_data : boss_data'[gid] = boss_data[gid]
    ]_vars

\* a reset of a schedule boss is in flight while that boss carries a timer
Wit_C10_ResetOfScheduleBoss ==
  \E h \in Handlers, b \in ScheduleNames :
    /\ tasks[h].cmd = "reset_noop"
    /\ str(tasks[h].guild_id) \in DOMAIN boss_data
    /\ boss_data[str(tasks[h].guild_id)][b].next_spawn # None

\* the records ensure_guild gives a community it creates
fresh_bosses == [n \in BossNames |-> new_boss(CatalogData(n))]

\* C11 as stated: a setkilltime step with a name that is not in the registry
\* leaves boss_data, the communities it holds included, and the file as they
\* were.
Cex_C11_NotFoundNoStateChange ==
  [][\A h \in Handlers, g \in Guilds, k \in KillTimes :
       setkilltime(h, g, "Nobody", k[1], k[2]) =>
         /\ boss_data' = boss_data
         /\ data_file' = data_file
    ]_vars

\* C11: a setkilltime step with a name that is not in the registry answers
\* not found, leaves the file and every community boss_data already held as
\* they were, and adds at most the caller's community, with fresh records.
Thm_C11_NotFoundKeepsRecords ==
  [][\A h \in Handlers, g \in Guilds, n \in KillNames \ BossNames, k \in KillTimes :
       setkilltime(h, g, n, k[1], k[2]) =>
         /\ tasks'[h] = Task("respond", "notfound", g)
         /\ data_file' = data_file
         /\ \A gid \in DOMAIN boss_data : boss_data'[gid] = boss_data[gid]
         /\ DOMAIN boss_data' = DOMAIN boss_data \cup {str(g)}
         /\ str(g) \notin DOMAIN boss_data => boss_data'[str(g)] = fresh_bosses
    ]_vars

\* a not-found answer is in flight in a community that holds a saved timer
Wit_C11_NotFoundWithTimers ==
  \E h \in Handlers :
    /\ tasks[h].cmd = "notfound"
    /\ data_file # None
    /\ str(tasks[h].guild_id) \in DOMAIN boss_data
    /\ \E n \in BossNames : boss_data[str(tasks[h].guild_id)][n].next_spawn # None

\* C12: a setkilltime step at instant now for a boss in the registry leaves
\* that boss with next_spawn = now + hours + minutes and skipped false,
\* whatever they were, leaves every other boss of the community as it was,
\* and the file loads to the same fields.
Thm_C12_SetKillTime ==
  [][\A h \in Handlers, g \in Guilds, n \in BossNames, k \in KillTimes :
       setkilltime(h, g, n, k[1], k[2]) =>
         LET gid == str(g)
             before == ensure_guild(boss_data, g)[gid]
             loaded == load_boss_data(data_file')
         IN  /\ boss_data'[gid][n].next_spawn = Some(now + timedelta(k[1], k[2]))
             /\ boss_data'[gid][n].skipped = FALSE
             /\ \A m \in BossNames \ {n} : boss_data'[gid][m] = before[m]
             /\ \A m \in BossNames : fields(loaded[gid][m]) = fields(boss_data'[gid][m])
    ]_vars

\* setkilltime is in flight after a skipall: one cooldown boss carries a
\* timer and is no longer skipped, another is still skipped
Wit_C12_SetKillTimeOnSkipped ==
  \E h \in Handlers :
    /\ tasks[h].cmd = "setkilltime"
    /\ tasks[h].pc = "respond"
    /\ \A o \in Handlers \ {h} : tasks[o].pc = "idle"
    /\ LET bosses == boss_data[str(tasks[h].guild_id)]
       IN  \E n, m \in CooldownNames :
             /\ bosses[n].next_spawn \in {Some(now + timedelta(k[1], k[2])) : k \in KillTimes}
             /\ ~bosses[n].skipped
             /\ bosses[m].skipped

\* C13: a skipall step leaves every cooldown boss of the community with
\* next_spawn none, auto false and skipped true, and every schedule boss with
\* the next_spawn, auto and skipped it had, a timer set by setkilltime
\* included; the file loads to the same fields.
Thm_C13_SkipAll ==
  [][\A h \in Handlers, g \in Guilds :
       skipall(h, g) =>
         LET gid == str(g)
             before == ensure_guild(boss_data, g)[gid]
             loaded == load_boss_data(data_file')
         IN  /\ \A n \in CooldownNames :
                  fields(boss_data'[gid][n]) = <<None, FALSE, TRUE>>
             /\ \A n \in ScheduleNames : boss_data'[gid][n] = before[n]
             /\ \A n \in BossNames : fields(loaded[gid][n]) = fields(boss_data'[gid][n])
    ]_vars

\* skipall is in flight, every cooldown boss is skipped and a schedule boss
\* still carries the timer setkilltime gave it
Wit_C13_SkipAllKeepsOverride ==
  \E h \in Handlers :
    /\ tasks[h].cmd = "skipall"
    /\ tasks[h].pc = "respond"
    /\ \A o \in Handlers \ {h} : tasks[o].pc = "idle"
    /\ LET bosses == boss_data[str(tasks[h].guild_id)]
       IN  /\ \A n \in CooldownNames : bosses[n].skipped
           /\ \E n \in ScheduleNames : bosses[n].next_spawn # None

\* the registry a skipall call, and a maintenance call, for guild_id leaves
\* behind (lines 366-374, 348-353)
after_skipall(bd, guild_id) ==
  [ensure_guild(bd, guild_id) EXCEPT ![str(guild_id)] = skipall_update(@)]

after_maintenance(bd, guild_id) ==
  [ensure_guild(bd, guild_id) EXCEPT ![str(guild_id)] = maintenance_update(@)]

\* C14: in every reachable state and for every community, skipall followed
\* at once by maintenance leaves every cooldown boss the record ensure_guild
\* creates (next_spawn none, auto false, skipped false), in memory and in the
\* file as loaded.
Thm_C14_SkipAllThenMaintenance ==
  \A g \in Guilds :
    LET gid == str(g)
        bd == after_maintenance(after_skipall(boss_data, g), g)
        loaded == load_boss_data(save_boss_data(bd))
    IN  \A n \in CooldownNames :
          /\ bd[gid][n] = fresh_bosses[n]
          /\ loaded[gid][n] = fresh_bosses[n]

\* a skipall and, after it, a maintenance are both awaiting their response
\* in a community whose file was written by both
Wit_C14_MaintenanceAfterSkipAll ==
  \E h, o \in Handlers :
    /\ tasks[h] = Task("respond", "skipall", tasks[h].guild_id)
    /\ tasks[o] = Task("respond", "maintenance", tasks[h].guild_id)
    /\ LET gid == str(tasks[h].guild_id)
       IN  /\ \A n \in CooldownNames : boss_data[gid][n] = fresh_bosses[n]
           /\ data_file = save_boss_data(boss_data)

\* the registry a press of boss_name's button at instant t, and a setkilltime
\* call at instant t, leaves behind (lines 254-260, 386-395)
after_reset(bd, guild_id, boss_name, t) ==
  [ensure_guild(bd, guild_id) EXCEPT ![str(guild_id)][boss_name] = reset_boss(@, t)]

after_setkilltime(bd, guild_id, boss_name, hours, minutes, t) ==
  LET reg == ensure_guild(bd, guild_id)
  IN  IF boss_name \notin DOMAIN reg[str(guild_id)]
        THEN reg
        ELSE [reg EXCEPT ![str(guild_id)] =
                setkilltime_update(@, boss_name, t + timedelta(hours, minutes))]

\* the instants a retry of a call made at now may run at
RetryInstants == {now, now + ClockStep}

\* two registries hold the same communities, bosses and records
same_registry(a, b) ==
  /\ DOMAIN a = DOMAIN b
  /\ \A gid \in DOMAIN a :
       /\ DOMAIN a[gid] = DOMAIN b[gid]
       /\ \A n \in DOMAIN a[gid] : a[gid][n] = b[gid][n]

\* registry a is registry b but for the next_spawn of boss n of community
\* gid, which is ns
same_but_next_spawn(a, b, gid, n, ns) ==
  /\ DOMAIN a = DOMAIN b
  /\ \A k \in DOMAIN a :
       /\ DOMAIN a[k] = DOMAIN b[k]
       /\ \A m \in DOMAIN a[k] :
            a[k][m] = IF k = gid /\ m = n
                        THEN [b[k][m] EXCEPT !.next_spawn = ns]
                        ELSE b[k][m]

\* C15 as stated: in every reachable state, reset, setkilltime, skipall and
\* maintenance applied a second time with the same arguments, at the same or
\* a later instant, leave the registry and the file the first application
\* left.
Cex_C15_IdempotentUnderRetry ==
  \A g \in Guilds, t \in RetryInstants :
    /\ LET once == after_skipall(boss_data, g)
           twice == after_skipall(once, g)
       IN  same_registry(twice, once) /\ save_boss_data(twice) = save_boss_data(once)
    /\ LET once == after_maintenance(boss_data, g)
           twice == after_maintenance(once, g)
       IN  same_registry(twice, once) /\ save_boss_data(twice) = save_boss_data(once)
    /\ \A n \in BossNames :
         LET once == after_reset(boss_data, g, n, now)
             twice == after_reset(once, g, n, t)
         IN  same_registry(twice, once) /\ save_boss_data(twice) = save_boss_data(once)
    /\ \A n \in KillNames, k \in KillTimes :
         LET once == after_setkilltime(boss_data, g, n, k[1], k[2], now)
             twice == after_setkilltime(once, g, n, k[1], k[2], t)
         IN  same_registry(twice, once) /\ save_boss_data(twice) = save_boss_data(once)

\* C15: in every reachable state skipall and maintenance applied a second
\* time leave the registry and the file the first application left; reset
\* and setkilltime applied a second time at instant t leave what the first
\* application left except that the boss's next_spawn is counted from t, so
\* the same registry and file when t is the instant of the first
\* application or the boss takes no timer from the call.
Thm_C15_RetryCountsFromLaterClock ==
  \A g \in Guilds, t \in RetryInstants :
    LET gid == str(g)
    IN  /\ LET once == after_skipall(boss_data, g)
               twice == after_skipall(once, g)
           IN  same_registry(twice, once) /\ save_boss_data(twice) = save_boss_data(once)
        /\ LET once == after_maintenance(boss_data, g)
               twice == after_maintenance(once, g)
           IN  same_registry(twice, once) /\ save_boss_data(twice) = save_boss_data(once)
        /\ \A n \in BossNames :
             LET once == after_reset(boss_data, g, n, now)
                 twice == after_reset(once, g, n, t)
             IN  /\ is_cooldown(n) =>
                      /\ once[gid][n].next_spawn =
                           Some(now + timedelta(CatalogData(n).respawn_hours, 0))
                      /\ same_but_next_spawn(twice, once, gid, n,
                           Some(t + timedelta(CatalogData(n).respawn_hours, 0)))
                 /\ (t = now \/ ~is_cooldown(n)) =>
                      /\ same_registry(twice, once)
                      /\ save_boss_data(twice) = save_boss_data(once)
        /\ \A n \in KillNames, k \in KillTimes :
             LET once == after_setkilltime(boss_data, g, n, k[1], k[2], now)
                 twice == after_setkilltime(once, g, n, k[1], k[2], t)
             IN  /\ n \in BossNames =>
                      /\ once[gid][n].next_spawn = Some(now + timedelta(k[1], k[2]))
                      /\ same_but_next_spawn(twice, once, gid, n,
                           Some(t + timedelta(k[1], k[2])))
                 /\ (t = now \/ n \notin BossNames) =>
                      /\ same_registry(twice, once)
                      /\ save_boss_data(twice) = save_boss_data(once)

\* the same button has been pressed twice, the second time after the clock
\* moved: both presses are in flight and the timer counts from the later one
Wit_C15_ResetRetriedLater ==
  /\ now > ClockStart
  /\ \A h \in Handlers : tasks[h].cmd = "reset" /\ tasks[h].guild_id = tasks[1].guild_id
  /\ LET bosses == boss_data[str(tasks[1].guild_id)]
     IN  /\ bosses["Venatus"].next_spawn =
               Some(now + timedelta(CatalogData("Venatus").respawn_hours, 0))
         /\ \A n \in BossNames \ {"Venatus"} : bosses[n] = fresh_bosses[n]
         /\ data_file = save_boss_data(boss_data)

\* C16: in every reachable state, load_boss_data of what save_boss_data
\* writes for boss_data holds the same communities and bosses, and every boss
\* has the next_spawn, auto and skipped it has in boss_data, be its
\* next_spawn none or a timestamp.
Thm_C16_SaveLoadRoundTrip ==
  LET loaded == load_boss_data(save_boss_data(boss_data))
  IN  /\ DOMAIN loaded = DOMAIN boss_data
      /\ \A gid \in DOMAIN boss_data :
           /\ DOMAIN loaded[gid] = DOMAIN boss_data[gid]
           /\ \A n \in DOMAIN boss_data[gid] :
                /\ fields(loaded[gid][n]) = fields(boss_data[gid][n])
                /\ loaded[gid][n] = boss_data[gid][n]

\* on_ready has loaded the file a handler saved, and the registry holds a
\* timestamp, a boss without one, and the file is what saving it would write
Wit_C16_LoadedWhatWasSaved ==
  /\ refresh.running
  /\ data_file # None
  /\ data_file = save_boss_data(boss_data)
  /\ boss_data = load_boss_data(data_file)
  /\ now > ClockStart
  /\ \E gid \in DOMAIN boss_data :
       /\ \E n \in BossNames :
            /\ boss_data[gid][n].next_spawn # None
            /\ boss_data[gid][n].next_spawn[1] < now
       /\ \E n \in BossNames : boss_data[gid][n].next_spawn = None

(* ------------------ load_boss_data of a damaged file ------------------ *)
\* communities in a file that was not left as save_boss_data wrote it
NumFileGuilds == 2

FileGuilds == 1 .. NumFileGuilds

\* communities as the commands leave them: untouched, every cooldown boss
\* reset, and every boss given a kill time before a skipall
SampleBosses ==
  {fresh_bosses,
   [n \in BossNames |-> reset_boss(fresh_bosses[n], ClockStart)],
   skipall_update([n \in BossNames |->
                     [fresh_bosses[n] EXCEPT
                        !.next_spawn = Some(ClockStart + timedelta(2, 30))]])}

\* what save_boss_data writes for registries of such communities
SavedContents ==
  {save_boss_data(bd)[1] : bd \in [{str(g) : g \in FileGuilds} -> SampleBosses]}

\* values of "next_spawn" that are no timestamp: text fromisoformat rejects
\* (hour 24, minute 60) and a JSON number
MalformedValues ==
  {Some([isoformat(ClockStart) EXCEPT !.hour = 24]),
   Some([isoformat(ClockStart) EXCEPT !.minute = 60]),
   <<"number", 0>>}

\* a stored next_spawn that is neither null nor text fromisoformat accepts
malformed(ns) == ns # None /\ (Len(ns) # 1 \/ ~iso_valid(ns[1]))

\* the content with the next_spawn of one record replaced by bad
damaged(content, gid, name, bad) ==
  [k \in DOMAIN content |->
     [m \in DOMAIN content[k] |->
        IF k = gid /\ m = name
          THEN [content[k][m] EXCEPT !.next_spawn = bad]
          ELSE content[k][m]]]

\* the process starts with such a file on disk
LoadInit ==
  /\ Init!1 /\ Init!2 /\ Init!4 /\ Init!5 /\ Init!6 /\ Init!7
  /\ data_file \in {Some(damaged(c, str(g), n, bad)) :
                      c \in SavedContents, g \in FileGuilds, n \in BossNames,
                      bad \in MalformedValues}

LoadSpec == LoadInit /\ [][on_ready]_vars

\* C17: once on_ready has loaded a file in which one record's next_spawn is
\* malformed, that boss has next_spawn none in boss_data and every other
\* record of every community has the next_spawn, auto and skipped stored
\* for it.
Cex_C17_MalformedLoadsAsNone ==
  refresh.running =>
    /\ DOMAIN boss_data = DOMAIN data_file[1]
    /\ \A gid \in DOMAIN boss_data :
         /\ DOMAIN boss_data[gid] = DOMAIN data_file[1][gid]
         /\ \A n \in DOMAIN boss_data[gid] :
              LET stored == data_file[1][gid][n]
                  loaded == boss_data[gid][n]
              IN  /\ loaded.auto = stored.auto
                  /\ loaded.skipped = stored.skipped
                  /\ loaded.next_spawn =
                       IF stored.next_spawn = None \/ malformed(stored.next_spawn)
                         THEN None
                         ELSE Some(fromisoformat(stored.next_spawn[1]))

\* a step of the periodic refresh: the start of a run of the loop body or
\* the return of one of its msg.edit calls
refresh_step == refresh_active_messages \/ \E ok \in BOOLEAN : refresh_edit_done(ok)

\* C18 as stated: in every reachable state a step of the periodic refresh
\* leaves boss_data, the communities it holds included, and the file as they
\* were.
Cex_C18_RefreshLeavesRegistry ==
  [][refresh_step => boss_data' = boss_data /\ data_file' = data_file]_vars

\* C18: a step of the periodic refresh, and a press of a page button, leaves
\* the file and every community boss_data already held as they were, and
\* adds at most communities with fresh records: those of display sessions
\* for the refresh, the caller's for the page button.
Thm_C18_RefreshKeepsRecords ==
  [][/\ refresh_step =>
          /\ data_file' = data_file
          /\ \A gid \in DOMAIN boss_data : boss_data'[gid] = boss_data[gid]
          /\ \A gid \in DOMAIN boss_data' \ DOMAIN boss_data :
               has_message(gid) /\ boss_data'[gid] = fresh_bosses
     /\ \A h \in Handlers, g \in Guilds :
          PageButton_callback(h, g) =>
            /\ data_file' = data_file
            /\ \A gid \in DOMAIN boss_data : boss_data'[gid] = boss_data[gid]
            /\ \A gid \in DOMAIN boss_data' \ DOMAIN boss_data :
                 gid = str(g) /\ boss_data'[gid] = fresh_bosses
    ]_vars

\* a run of the refresh loop is under way, after the file was written, for
\* a display session whose community holds a skipped boss and a timer
Wit_C18_RefreshUnderWay ==
  /\ refresh.pending # << >>
  /\ data_file # None
  /\ \A h \in Handlers : tasks[h].pc = "idle"
  /\ LET gid == Head(refresh.pending)
     IN  /\ has_message(gid)
         /\ gid \in DOMAIN boss_data
         /\ \E n \in BossNames : boss_data[gid][n].skipped
         /\ \E n \in BossNames : boss_data[gid][n].next_spawn # None

\* the registry was emptied by on_ready while a display session exists: the
\* next run of the refresh loop finds no community for it
Wit_C18_SessionWithoutCommunity ==
  /\ refresh.running
  /\ refresh.pending = << >>
  /\ active_messages # << >>
  /\ boss_data = << >>

(* -------------------------- two communities --------------------------- *)
\* communities commands arrive from when isolation is examined
NumIsoGuilds == 2

IsoGuilds == 1 .. NumIsoGuilds

\* one handler at a time, one kill time
IsoHandlers == {1}
IsoKillTimes == {<<2, 30>>}

\* a command or a button of guild_id runs up to its first await
command(h, guild_id) ==
  \/ boss(h, guild_id)
  \/ maintenance(h, guild_id)
  \/ skipall(h, guild_id)
  \/ \E n \in KillNames, k \in IsoKillTimes : setkilltime(h, guild_id, n, k[1], k[2])
  \/ \E n \in BossNames : BossButton_callback(h, guild_id, n)
  \/ PageButton_callback(h, guild_id)

IsoNext ==
  \/ \E h \in IsoHandlers, g \in IsoGuilds : boss(h, g)
  \/ \E h \in IsoHandlers, g \in IsoGuilds : maintenance(h, g)
  \/ \E h \in IsoHandlers, g \in IsoGuilds : skipall(h, g)
  \/ \E h \in IsoHandlers, g \in IsoGuilds, n \in KillNames, k \in IsoKillTimes :
       setkilltime(h, g, n, k[1], k[2])
  \/ \E h \in IsoHandlers, g \in IsoGuilds, n \in BossNames : BossButton_callback(h, g, n)
  \/ \E h \in IsoHandlers, g \in IsoGuilds : PageButton_callback(h, g)
  \/ \E h \in IsoHandlers : respond_done(h)
  \/ \E h \in IsoHandlers, ok \in BOOLEAN : edit_done(h, ok)
  \/ \E h \in IsoHandlers, ok \in BOOLEAN : original_done(h, ok)
  \/ refresh_active_messages
  \/ \E ok \in BOOLEAN : refresh_edit_done(ok)
  \/ on_ready
  \/ restart

IsoSpec == Init /\ [][IsoNext]_vars

\* registry after holds community gid with the next_spawn, auto and skipped
\* registry before holds for it, if before holds it at all
kept(before, after, gid) ==
  gid \in DOMAIN before =>
    /\ gid \in DOMAIN after
    /\ DOMAIN after[gid] = DOMAIN before[gid]
    /\ \A n \in DOMAIN before[gid] : fields(after[gid][n]) = fields(before[gid][n])

\* C19: a command or button step for community a leaves the next_spawn, auto
\* and skipped of every boss of every other community b as they were, in
\* boss_data and in the file as load_boss_data reads it.
Cex_C19_CommunityIsolation ==
  [][\A h \in IsoHandlers, a \in IsoGuilds :
       command(h, a) =>
         \A b \in IsoGuilds \ {a} :
           /\ kept(boss_data, boss_data', str(b))
           /\ kept(load_boss_data(data_file), load_boss_data(data_file'), str(b))
    ]_vars


\* C20: in every reachable state, in boss_data and in the registry
\* load_boss_data would build from the file, a boss with skipped true is a
\* cooldown boss with next_spawn none, no schedule boss is skipped, and auto
\* is false for every boss.
Thm_C20_SkippedHasNoTimer ==
  \A bd \in {boss_data, load_boss_data(data_file)} :
    \A gid \in DOMAIN bd :
      \A n \in DOMAIN bd[gid] :
        /\ bd[gid][n].skipped =>
             /\ "respawn_hours" \in DOMAIN bd[gid][n]
             /\ bd[gid][n].next_spawn = None
        /\ "schedule" \in DOMAIN bd[gid][n] => ~bd[gid][n].skipped
        /\ bd[gid][n].auto = FALSE

\* after a skipall, one cooldown boss was given a timer again and a
\* schedule boss a kill time, while another cooldown boss is still skipped
Wit_C20_SkippedBesideTimers ==
  \E gid \in DOMAIN boss_data :
    /\ \E n \in CooldownNames : boss_data[gid][n].skipped
    /\ \E n \in CooldownNames :
         ~boss_data[gid][n].skipped /\ boss_data[gid][n].next_spawn # None
    /\ \E n \in ScheduleNames : boss_data[gid][n].next_spawn # None
    /\ data_file = save_boss_data(boss_data)
====
